---------------------------- MODULE Spec2Model ----------------------------
(***************************************************************************)
(* Model of the description generator of app/api/generate/route.ts: the    *)
(* fact merger, the scope filter, the evidence gate, the grounding         *)
(* validator, the sanitizer and the completeness enforcer, and the POST    *)
(* handler that chains them.                                               *)
(*                                                                         *)
(* Text.  A JavaScript string is a sequence of tokens.  A token is one     *)
(* character of the source text, written in ASCII:                         *)
(*     " "   a blank            "\n"  a line break                         *)
(*     "."   。                 ":"   :          "::"  ：                  *)
(*     "*"   ※                  "("   （         ")"   ）                  *)
(*     "-"   ・                                                            *)
(*     "sai" 最   "kou" 高   "kyu" 級   "kaku" 格   "yasu" 安   "ha" 破    *)
(* or one fixed run of characters that the code never looks into:          *)
(*     "rimawari" 利回り                                                   *)
(*     "adj"   表現調整 (the inside of the sanitizer's wrapper)            *)
(*     "desho" でしょう   "to" と   "iemasu" 言えます                        *)
(*     "loc" 所在地  "year" 築年  "station" 最寄駅  "name" 物件名          *)
(*     "layout" 間取り  "floor" 階                                         *)
(*     "[stop]" .. "[advice-unit]"  the fixed lines of factOnlyOutput      *)
(*     "[addendum]"  【情報の明示（抽出値）】                              *)
(* A fact key and a fact value are texts.  A fact set (a JavaScript        *)
(* object) is a sequence of <<key, value>> pairs with distinct keys, in    *)
(* insertion order, which is the order Object.entries yields.              *)
(***************************************************************************)
EXTENDS Integers, Sequences, FiniteSets, TLC

----------------------------------------------------------------------------
(* Strings *)

SP == " "
NL == "\n"
MARU == "."
COLON == ":"
ZCOLON == "::"

\* String.prototype.trim strips white space and line terminators
IsSpace(c) == c \in {SP, NL}

RECURSIVE TrimStart(_)
TrimStart(s) ==
  IF s = <<>> THEN <<>>
  ELSE IF IsSpace(Head(s)) THEN TrimStart(Tail(s)) ELSE s

RECURSIVE TrimEnd(_)
TrimEnd(s) ==
  IF s = <<>> THEN <<>>
  ELSE IF IsSpace(s[Len(s)]) THEN TrimEnd(SubSeq(s, 1, Len(s) - 1)) ELSE s

Trim(s) == TrimEnd(TrimStart(s))

StartsWith(s, p) == Len(p) <= Len(s) /\ SubSeq(s, 1, Len(p)) = p

\* String.prototype.includes
Includes(s, p) ==
  \E i \in 0..(Len(s) - Len(p)) : SubSeq(s, i + 1, i + Len(p)) = p

\* String.prototype.replaceAll(w, r) for a non-empty literal w: the matches
\* are found left to right and do not overlap
RECURSIVE ReplaceAll(_, _, _)
ReplaceAll(s, w, r) ==
  IF Len(s) < Len(w) THEN s
  ELSE IF StartsWith(s, w)
       THEN r \o ReplaceAll(SubSeq(s, Len(w) + 1, Len(s)), w, r)
       ELSE <<Head(s)>> \o ReplaceAll(Tail(s), w, r)

\* String.prototype.split(/(?<=[...])/): cut after every delimiter that is
\* not the last character; the empty string gives one empty piece
RECURSIVE SplitAfterFrom(_, _, _)
SplitAfterFrom(s, delims, cur) ==
  IF s = <<>> THEN <<cur>>
  ELSE IF Head(s) \in delims /\ Tail(s) # <<>>
       THEN <<Append(cur, Head(s))>> \o SplitAfterFrom(Tail(s), delims, <<>>)
       ELSE SplitAfterFrom(Tail(s), delims, Append(cur, Head(s)))

SplitAfter(s, delims) == SplitAfterFrom(s, delims, <<>>)

\* Array.prototype.join(sep) of an array of strings
RECURSIVE Join(_, _)
Join(parts, sep) ==
  IF parts = <<>> THEN <<>>
  ELSE IF Len(parts) = 1 THEN parts[1]
  ELSE parts[1] \o sep \o Join(Tail(parts), sep)

----------------------------------------------------------------------------
(* Fact sets *)

EmptyFacts == <<>>

KeysOf(f) == {f[i][1] : i \in DOMAIN f}

Has(f, k) == k \in KeysOf(f)

\* f[k]; undefined is read as the empty string, which is falsy as well
Get(f, k) == IF Has(f, k) THEN f[CHOOSE i \in DOMAIN f : f[i][1] = k][2] ELSE <<>>

\* f[k] = v: an existing key keeps its place, a new key goes last
Put(f, k, v) ==
  IF Has(f, k) THEN [i \in DOMAIN f |-> IF f[i][1] = k THEN <<k, v>> ELSE f[i]]
  ELSE Append(f, <<k, v>>)

IsKept(e, ks) == e[1] \notin ks

\* delete f[k] for every k of ks
DeleteKeys(f, ks) == SelectSeq(f, LAMBDA e : IsKept(e, ks))

\* two objects with the same own properties, whatever their order
SameFacts(f, g) == KeysOf(f) = KeysOf(g) /\ \A k \in KeysOf(f) : Get(f, k) = Get(g, k)

----------------------------------------------------------------------------
(* Program constants *)

MIN_FACTS_FOR_GENERATION == 3

Scopes == {"unit", "building"}   \* "部屋", "棟"

KEY_NAME == <<"name">>           \* 物件名
KEY_LOC == <<"loc">>             \* 所在地
KEY_YEAR == <<"year">>           \* 築年
KEY_STATION == <<"station">>     \* 最寄駅
KEY_LAYOUT == <<"layout">>       \* 間取り
KEY_FLOOR == <<"floor">>         \* 階

\* The banned terms 最高, 最高級, 格安, 破格, 高利回り, in the order of the
\* list: a term that contains an earlier one (最高級), two terms that overlap
\* with the later one first in the text (破格安), and two that overlap with
\* the earlier one first (最高利回り)
BANNED_WORDS ==
  << <<"sai", "kou">>, <<"sai", "kou", "kyu">>, <<"kaku", "yasu">>, <<"ha", "kaku">>,
     <<"kou", "rimawari">> >>

\* The hedge phrases と言えます, でしょう。 and でしょう, in the order of the list
BANNED_PHRASES == << <<"to", "iemasu">>, <<"desho", MARU>>, <<"desho">> >>

\* lib/schema.ts (not among the sources): the keys of a single dwelling unit
UNIT_ONLY_KEYS ==
  { KEY_LAYOUT, <<"area">>, <<"balcony">>, KEY_FLOOR, <<"direction">>,
    <<"reform">>, <<"renovation">>, <<"equipment">> }

\* lib/schema.ts (not among the sources): the words that mark a sentence as
\* being about a single dwelling unit
UNIT_ONLY_KEYWORDS ==
  { KEY_LAYOUT, <<"area">>, KEY_FLOOR, <<"direction">>, <<"reform">>, <<"equipment">> }

----------------------------------------------------------------------------
(* The functions of route.ts *)

\* `※${w}（表現調整）`
Wrapped(w) == <<"*">> \o w \o <<"(", "adj", ")">>

RECURSIVE SanitizeFrom(_, _)
SanitizeFrom(out, i) ==
  IF i > Len(BANNED_WORDS) THEN out
  ELSE SanitizeFrom(ReplaceAll(out, BANNED_WORDS[i], Wrapped(BANNED_WORDS[i])), i + 1)

\* String.prototype.replace(w, r): the first match only
RECURSIVE ReplaceFirst(_, _, _)
ReplaceFirst(s, w, r) ==
  IF Len(s) < Len(w) THEN s
  ELSE IF StartsWith(s, w) THEN r \o SubSeq(s, Len(w) + 1, Len(s))
       ELSE <<Head(s)>> \o ReplaceFirst(Tail(s), w, r)

RECURSIVE SanitizeFirstFrom(_, _)
SanitizeFirstFrom(out, i) ==
  IF i > Len(BANNED_WORDS) THEN out
  ELSE SanitizeFirstFrom(ReplaceFirst(out, BANNED_WORDS[i], Wrapped(BANNED_WORDS[i])), i + 1)

sanitizeForbiddenFirstOnly(text) == Trim(SanitizeFirstFrom(text, 1))

sanitizeForbidden(text) == Trim(SanitizeFrom(text, 1))

HasBannedPhrase(s) == \E i \in DOMAIN BANNED_PHRASES : Includes(s, BANNED_PHRASES[i])

NoBannedPhrase(s) == ~HasBannedPhrase(s)

\* 。 ！ ! ？ and the line break end a sentence
PhraseSentenceEnds == {MARU, "!!", "!", "??", NL}

keepAllSentences(text) == Trim(text)

dropBannedPhrases(text) ==
  Trim(Join(SelectSeq(SplitAfter(text, PhraseSentenceEnds), NoBannedPhrase), <<>>))

RECURSIVE MergeEntries(_, _)
MergeEntries(out, add) ==
  IF add = <<>> THEN out
  ELSE LET k == add[1][1]
           v == add[1][2]
           cur == Get(out, k)
           nxt == IF v = <<>> THEN out
                  ELSE IF cur = <<>> THEN Put(out, k, v)
                  ELSE IF Len(v) > Len(cur) THEN Put(out, k, v)
                  ELSE out
       IN MergeEntries(nxt, Tail(add))

\* the merger that lets the value of the later source stand
RECURSIVE OverwriteEntries(_, _)
OverwriteEntries(out, add) ==
  IF add = <<>> THEN out
  ELSE OverwriteEntries(IF add[1][2] = <<>> THEN out ELSE Put(out, add[1][1], add[1][2]),
                        Tail(add))

mergeFactsLastWins(base, add) == OverwriteEntries(base, add)

mergeFacts(base, add) == MergeEntries(base, add)

keepUnitOnlyFacts(facts, sc) == facts

\* the first unit-only entry of facts, as a set of keys
FirstUnitOnlyKey(facts) ==
  LET at == { i \in DOMAIN facts : facts[i][1] \in UNIT_ONLY_KEYS }
  IN IF at = {} THEN {} ELSE { facts[CHOOSE i \in at : \A j \in at : i <= j][1] }

stripFirstUnitOnlyFact(facts, sc) ==
  IF sc = "unit" THEN facts ELSE DeleteKeys(facts, FirstUnitOnlyKey(facts))

stripUnitOnlyFactsForUnitScope(facts, sc) ==
  IF sc = "building" THEN facts ELSE DeleteKeys(facts, UNIT_ONLY_KEYS)

stripUnitOnlyFactsForBuildingScope(facts, scope) ==
  IF scope = "unit" THEN facts ELSE DeleteKeys(facts, UNIT_ONLY_KEYS)

HasUnitKeyword(s) == \E kw \in UNIT_ONLY_KEYWORDS : Includes(s, kw)

NoUnitKeyword(s) == ~HasUnitKeyword(s)

keepUnitOnlySentences(text, sc) == Trim(text)

stripUnitOnlySentencesNoFallback(text, sc) ==
  IF sc = "unit" THEN text
  ELSE Trim(Join(SelectSeq(SplitAfter(text, {MARU, NL}), NoUnitKeyword), <<>>))

stripUnitOnlySentences(text, scope) ==
  IF scope = "unit" THEN text
  ELSE LET sentences == SplitAfter(text, {MARU, NL})
           kept == Trim(Join(SelectSeq(sentences, NoUnitKeyword), <<>>))
       IN Trim(IF kept # <<>> THEN kept ELSE sentences[1])

\* the set unitOnly of enforceMustInclude
MustIncludeUnitOnly ==
  { KEY_LAYOUT, <<"area">>, <<"balcony">>, KEY_FLOOR, <<"direction">>,
    <<"reform">>, <<"renovation">>, <<"equipment">> }

IsApplicable(k, scope) == scope # "building" \/ k \notin MustIncludeUnitOnly

IsMissing(text, facts, k) ==
  LET v == Get(facts, k)
  IN /\ v # <<>>
     /\ ~Includes(text, v)
     /\ ~Includes(text, k \o <<ZCOLON>> \o v)
     /\ ~Includes(text, k \o <<COLON>> \o v)

\* `・${key}：${value}`
FactLine(k, v) == <<"-">> \o k \o <<ZCOLON>> \o v

RECURSIVE MissingLines(_, _, _, _)
MissingLines(text, facts, keys, scope) ==
  IF keys = <<>> THEN <<>>
  ELSE LET k == Head(keys)
           rest == MissingLines(text, facts, Tail(keys), scope)
       IN IF IsApplicable(k, scope) /\ IsMissing(text, facts, k)
          THEN <<FactLine(k, Get(facts, k))>> \o rest
          ELSE rest

enforceMustIncludeFirstOnly(text, facts, keys, scope) ==
  LET missing == MissingLines(text, facts, keys, scope)
  IN IF keys = <<>> \/ missing = <<>> THEN text
     ELSE text \o <<NL, NL, "[addendum]", NL>> \o missing[1]

enforceMustInclude(text, facts, keys, scope) ==
  LET missing == MissingLines(text, facts, keys, scope)
  IN IF keys = <<>> \/ missing = <<>> THEN text
     ELSE text \o <<NL, NL, "[addendum]", NL>> \o Join(missing, <<NL>>)

IsCounted(e) == Trim(e[2]) # <<>>

countFacts(obj) == Len(SelectSeq(obj, IsCounted))

IsColon(c) == c \in {COLON, ZCOLON}

\* the index of the first colon of a line, 0 when it has none
FirstColon(line) ==
  IF \E i \in DOMAIN line : IsColon(line[i])
  THEN CHOOSE i \in DOMAIN line :
         IsColon(line[i]) /\ \A j \in 1..(i - 1) : ~IsColon(line[j])
  ELSE 0

\* line.match(/^\s*([^:：]+)\s*[:：]\s*(.+?)\s*$/): one character at least
\* before the first colon and one at least after it
LineMatches(line) == FirstColon(line) >= 2 /\ FirstColon(line) < Len(line)

RECURSIVE ParseLines(_, _)
ParseLines(out, lines) ==
  IF lines = <<>> THEN out
  ELSE LET line == Head(lines)
           c == FirstColon(line)
       IN IF LineMatches(line)
          THEN ParseLines(Put(out, Trim(SubSeq(line, 1, c - 1)),
                                   Trim(SubSeq(line, c + 1, Len(line)))),
                          Tail(lines))
          ELSE ParseLines(out, Tail(lines))

\* text.split(/\r?\n/)
RECURSIVE SplitLinesFrom(_, _)
SplitLinesFrom(s, cur) ==
  IF s = <<>> THEN <<cur>>
  ELSE IF Head(s) = NL THEN <<cur>> \o SplitLinesFrom(Tail(s), <<>>)
  ELSE SplitLinesFrom(Tail(s), Append(cur, Head(s)))

parseManualFacts(text) ==
  IF text = <<>> THEN EmptyFacts ELSE ParseLines(EmptyFacts, SplitLinesFrom(text, <<>>))

IsTruthyEntry(e) == e[2] # <<>>

RECURSIVE EntryLines(_)
EntryLines(f) ==
  IF f = <<>> THEN <<>> ELSE <<FactLine(f[1][1], f[1][2])>> \o EntryLines(Tail(f))

factOnlyOutput(facts, scope) ==
  LET lines == Join(EntryLines(SelectSeq(facts, IsTruthyEntry)), <<NL>>)
      advice == IF scope = "building" THEN "[advice-building]" ELSE "[advice-unit]"
  IN <<"[stop]", NL, "[only]", NL, NL, "[facts]", NL>>
       \o (IF lines # <<>> THEN lines ELSE <<"[none]">>)
       \o <<NL, NL, "[request]", NL, advice>>

QUOTE == "\""
BACKSLASH == "\\"

\* the result of extractFirstJsonObject: null, or a slice of the input
JsonNull == [isNull |-> TRUE, text |-> <<>>]

\* String.prototype.indexOf(c), counted from 1; 0 for -1
IndexOf(s, c) ==
  LET at == { i \in DOMAIN s : s[i] = c }
  IN IF at = {} THEN 0 ELSE CHOOSE i \in at : \A j \in at : i <= j

\* the loop of extractFirstJsonObject from position i on
RECURSIVE ScanObject(_, _, _, _, _, _)
ScanObject(input, start, i, depth, inString, prev) ==
  IF i > Len(input) THEN JsonNull
  ELSE LET ch == input[i]
           str == IF ch = QUOTE /\ prev # BACKSLASH THEN ~inString ELSE inString
           d == IF str THEN depth
                ELSE IF ch = "{" THEN depth + 1
                ELSE IF ch = "}" THEN depth - 1
                ELSE depth
       IN IF ~str /\ ch = "}" /\ d = 0
          THEN [isNull |-> FALSE, text |-> SubSeq(input, start, i)]
          ELSE ScanObject(input, start, i + 1, d, str, ch)

extractFirstJsonObject(input) ==
  LET start == IndexOf(input, "{")
  IN IF start = 0 THEN JsonNull
     ELSE ScanObject(input, start, start, 0, FALSE, "")

\* { ...a, ...b }
RECURSIVE Spread(_, _)
Spread(a, b) == IF b = <<>> THEN a ELSE Spread(Put(a, b[1][1], b[1][2]), Tail(b))

----------------------------------------------------------------------------
(* The extractor of lib/extract.ts.  A page is what cheerio finds in it:   *)
(* ld, the objects of the JSON-LD scripts; items, the [itemprop] elements  *)
(* as <<prop, content>>; rows, the label elements of the tables and lists  *)
(* with the text of their value element, as <<label, value>>; matches,     *)
(* for each pattern of REGEX_CANDIDATES the group m[1] found in the body   *)
(* text, <<>> for no match                                                 *)

\* lib/schema.ts (not among the sources): the labels 所在地, 住所, 物件名 and
\* 築年月 with their canonical keys
ALIASES ==
  << << <<"loc">>, KEY_LOC >>, << <<"addr">>, KEY_LOC >>, << <<"name">>, KEY_NAME >>,
     << <<"built">>, KEY_YEAR >> >>

\* lib/schema.ts (not among the sources): the keys that have a pattern, in
\* the order of the list
REGEX_CANDIDATES == << KEY_LOC, KEY_YEAR >>

\* facts[k] ??= v
AssignIfNullish(facts, k, v) == IF Has(facts, k) THEN facts ELSE Put(facts, k, v)

\* facts[k] = v, whatever facts[k] holds
AssignAlways(facts, k, v) == Put(facts, k, v)

\* if (!facts[k]) facts[k] = v
AssignIfEmpty(facts, k, v) == IF Get(facts, k) # <<>> THEN facts ELSE Put(facts, k, v)

\* [postalCode, addressRegion, addressLocality, streetAddress].filter(Boolean).join("")
JoinedAddress(address) == Join(SelectSeq(address, LAMBDA part : part # <<>>), <<>>)

\* one object of a JSON-LD script; address is <<>> when it is no object
FromJsonLdObject(facts, obj) ==
  LET named == IF obj.name # <<>> THEN AssignIfNullish(facts, KEY_NAME, obj.name) ELSE facts
      adr == JoinedAddress(obj.address)
      located == IF adr # <<>> THEN AssignIfNullish(named, KEY_LOC, adr) ELSE named
  IN IF obj.yearBuilt # <<>> THEN AssignIfNullish(located, KEY_YEAR, obj.yearBuilt)
     ELSE located

RECURSIVE FromJsonLd(_, _)
FromJsonLd(facts, ld) ==
  IF ld = <<>> THEN facts ELSE FromJsonLd(FromJsonLdObject(facts, ld[1]), Tail(ld))

\* the map of the Microdata strategy; <<>> for a prop it does not hold
MicrodataKey(prop) ==
  IF prop = "name" THEN KEY_NAME
  ELSE IF prop \in {"address", "addressLocality", "streetAddress"} THEN KEY_LOC
  ELSE <<>>

RECURSIVE FromMicrodata(_, _)
FromMicrodata(facts, items) ==
  IF items = <<>> THEN facts
  ELSE LET prop == items[1][1]
           val == Trim(items[1][2])
           key == MicrodataKey(prop)
       IN FromMicrodata(IF prop # "" /\ val # <<>> /\ key # <<>>
                          THEN AssignIfEmpty(facts, key, val) ELSE facts,
                        Tail(items))

\* replace(/\s+/g, ""): the white space is taken out
RemoveSpaces(s) == SelectSeq(s, LAMBDA c : ~IsSpace(c))

\* replace(/\s+/g, " "): every run of white space becomes one blank
RECURSIVE CollapseSpaces(_)
CollapseSpaces(s) ==
  IF s = <<>> THEN <<>>
  ELSE IF IsSpace(Head(s))
       THEN <<SP>> \o CollapseSpaces(TrimStart(s))
       ELSE <<Head(s)>> \o CollapseSpaces(Tail(s))

\* candidates.set(label, value) over the label elements in document order:
\* a Map keeps the place of the first set of a key and the value of the last
RECURSIVE TableCandidates(_, _)
TableCandidates(candidates, rows) ==
  IF rows = <<>> THEN candidates
  ELSE LET label == RemoveSpaces(rows[1][1])
           value == CollapseSpaces(Trim(rows[1][2]))
       IN TableCandidates(IF label = <<>> \/ value = <<>> \/ Len(label) > 20
                            THEN candidates ELSE Put(candidates, label, value),
                          Tail(rows))

\* ALIASES[label]; <<>> for undefined
StdKey(label) ==
  LET at == { i \in DOMAIN ALIASES : ALIASES[i][1] = label }
  IN IF at = {} THEN <<>> ELSE ALIASES[CHOOSE i \in at : TRUE][2]

\* for (const [label, value] of candidates)
RECURSIVE FromCandidates(_, _)
FromCandidates(facts, candidates) ==
  IF candidates = <<>> THEN facts
  ELSE LET stdKey == StdKey(candidates[1][1])
       IN FromCandidates(IF stdKey # <<>> THEN AssignIfEmpty(facts, stdKey, candidates[1][2])
                           ELSE facts,
                         Tail(candidates))

FromTable(facts, rows) == FromCandidates(facts, TableCandidates(<<>>, rows))

\* for (const [key, re] of REGEX_CANDIDATES), from the i-th pattern on
RECURSIVE FromRegex(_, _, _)
FromRegex(facts, matches, i) ==
  IF i > Len(REGEX_CANDIDATES) THEN facts
  ELSE LET key == REGEX_CANDIDATES[i]
       IN FromRegex(IF Get(facts, key) # <<>> \/ matches[i] = <<>> THEN facts
                      ELSE Put(facts, key, Trim(matches[i])),
                    matches, i + 1)

extractFactsFromHtml(page) ==
  FromRegex(FromTable(FromMicrodata(FromJsonLd(EmptyFacts, page.ld), page.items), page.rows),
            page.matches, 1)

----------------------------------------------------------------------------
(* Bounds and the inputs drawn within them *)

MaxSources == 1        \* sources of one request (BodySchema allows 3)
MaxKept == 2           \* sentences of one payload that pass the validation

RECURSIVE Compact(_)
Compact(f) ==
  IF f = <<>> THEN <<>>
  ELSE IF f[1][2] = <<>> THEN Compact(Tail(f)) ELSE <<f[1]>> \o Compact(Tail(f))

\* What one page can yield: each key absent or with one of a few values, a
\* banned term (最高), a blank value (JSON-LD values are not trimmed)
PageKeys == <<KEY_NAME, KEY_LOC, KEY_YEAR, KEY_LAYOUT>>

PageValues ==
  << {<<"sai", "kou">>}, {<<"T">>, <<SP>>}, {<<"1", "9", "9", "1">>}, {<<"3">>} >>

ExtractedFacts ==
  { Compact([i \in DOMAIN PageKeys |-> <<PageKeys[i], c[i]>>]) :
      c \in { d \in [DOMAIN PageKeys -> UNION {PageValues[i] : i \in DOMAIN PageKeys} \cup {<<>>}] :
                \A i \in DOMAIN PageKeys : d[i] \in PageValues[i] \cup {<<>>} } }

\* propertyName: absent, a name, a blank name
PropertyNames == { <<>>, <<"P">>, <<SP>> }

\* lines of the extra-facts block: a unit-only label, a label with a blank
\* value, a value shorter than the extracted one, a name, a value that
\* holds a hedge phrase (最寄駅:Tでしょう)
ExtraLines ==
  { <<"layout", COLON, "2">>, <<"loc", ZCOLON, SP>>, <<"year", COLON, "1", "9">>,
    <<"name", COLON, SP, "X">>, <<"station", COLON, "T", "desho">> }

ExtraTexts ==
  { <<>> } \cup ExtraLines
    \cup { <<"name", COLON, SP, "X", NL, "layout", ZCOLON, "2">> }

\* mustIncludeKeys
MustIncludeChoices ==
  { <<>>, <<KEY_NAME>>, <<KEY_YEAR>>, <<KEY_LAYOUT>>, <<KEY_LOC, KEY_NAME, KEY_STATION>> }

\* The sentences a payload can hold.  text: absent (read as "") or one of a
\* few texts; keys: an array of strings or something that is not an array
SentenceTexts ==
  { <<>>,
    <<"1", "9", "9", "1", MARU>>,          \* 1991。
    <<"1", "9", "9", "0", MARU>>,          \* 1990。
    <<SP, "sai", "kou", "T", MARU>>,       \* 最高T。 after a blank
    <<"3", "floor", "T", MARU>>,           \* 3階T。
    <<"T", "desho", MARU>>,                \* Tでしょう。
    <<"iemasu", "X", MARU, "to">> }        \* 言えますX。と              \* 言えますX。

SentenceKeys ==
  { <<>>, <<KEY_YEAR>>, <<KEY_LOC>>, <<KEY_LAYOUT>>, <<KEY_YEAR, <<"view">> >>,
    <<KEY_NAME>> }

\* a text with the keys it is claimed for: the year-built key for no text,
\* the right and the wrong year; no key and a key that is no fact key for
\* the right year; the location key for the texts that hold the location
\* and one that does not; the layout key for the text that holds the layout;
\* the name key for a text that ends with と and begins with 言えます
Sentences ==
  { s \in [text : SentenceTexts, keys : SentenceKeys, isArray : {TRUE}] :
      \/ /\ s.keys = <<KEY_YEAR>>
         /\ s.text \in {<<>>, <<"1", "9", "9", "1", MARU>>, <<"1", "9", "9", "0", MARU>>}
      \/ /\ s.keys \in {<<>>, <<KEY_YEAR, <<"view">> >>}
         /\ s.text = <<"1", "9", "9", "1", MARU>>
      \/ /\ s.keys = <<KEY_LOC>>
         /\ s.text \in {<<"1", "9", "9", "1", MARU>>, <<SP, "sai", "kou", "T", MARU>>,
                        <<"3", "floor", "T", MARU>>, <<"T", "desho", MARU>>}
      \/ /\ s.keys = <<KEY_LAYOUT>>
         /\ s.text = <<"3", "floor", "T", MARU>>
      \/ /\ s.keys = <<KEY_NAME>>
         /\ s.text = <<"iemasu", "X", MARU, "to">> }
    \cup [text : {<<"1", "9", "9", "1", MARU>>}, keys : {<<KEY_YEAR>>}, isArray : {FALSE}]

Tones == {"elegant", "plain", "friendly"}   \* 上品・落ち着き, 一般的, 親しみやすい

----------------------------------------------------------------------------
(* State *)

VARIABLES
  pc,            \* where POST is: "entry", "parse", "fetch", "gate", "generate",
                 \* "awaiting", "validate", "done"; "idle" when no request runs
  body,          \* await req.json(), until BodySchema.parse has judged it
  scope,         \* parsed.scope
  srcLeft,       \* sources not yet retrieved
  merged,        \* let merged
  scopedFacts,   \* const scopedFacts
  aiCalls,       \* calls of client.responses.create so far
  inSection,     \* inside the loop over sec.sentences
  cur,           \* the sentence s being examined
  valid,         \* const valid of the current section
  nKept,         \* sentences pushed to valid since the payload arrived
  paragraphs,    \* const paragraphs
  response,      \* the NextResponse returned
  hIn,           \* the arguments of a function applied on its own
  hOut           \* its result

vars ==
  << pc, body, scope, srcLeft, merged, scopedFacts, aiCalls,
     inSection, cur, valid, nKept, paragraphs, response, hIn, hOut >>

NoResponse == [status |-> 0]
NoSentence == [none |-> TRUE]
NoValue == [none |-> TRUE]
NoBody == [none |-> TRUE]

\* NextResponse.json({ text, facts })
OkResponse(text, facts) == [status |-> 200, text |-> text, facts |-> facts]

\* NextResponse.json({ error: message }, { status: 500 })
ErrorResponse == [status |-> 500, error |-> "message"]

Disclosure == OkResponse(factOnlyOutput(scopedFacts, scope), scopedFacts)

requestVars ==
  << pc, body, scope, srcLeft, merged, scopedFacts, aiCalls,
     inSection, cur, valid, nKept, paragraphs, response >>

Init ==
  /\ pc = "entry"
  /\ body = NoBody
  /\ scope = "unit"
  /\ srcLeft = 0
  /\ merged = EmptyFacts
  /\ scopedFacts = EmptyFacts
  /\ aiCalls = 0
  /\ inSection = FALSE
  /\ cur = NoSentence
  /\ valid = <<>>
  /\ nKept = 0
  /\ paragraphs = <<>>
  /\ response = NoResponse
  /\ hIn = NoValue
  /\ hOut = NoValue

----------------------------------------------------------------------------
(* POST *)

BodyIsValidAnyLength(tone, length, nsources) ==
  /\ tone \in Tones
  /\ nsources >= 1 /\ nsources <= 3

\* BodySchema: tone of the enum, length an integer of 300..1200, at most 3
\* sources, and sources or source given
BodyIsValid(tone, length, nsources) ==
  /\ tone \in Tones
  /\ length >= 300 /\ length <= 1200
  /\ nsources >= 1 /\ nsources <= 3

\* await req.json(): the fields of the body that BodySchema judges, the
\* number of sources given and how many of them are blank
Bodies ==
  { b \in [tone : Tones \cup {"other"}, length : {299, 300, 1200, 1201},
           nsources : 0..MaxSources, blank : 0..1, scope : Scopes] :
      b.blank <= b.nsources }

ReceiveBody ==
  /\ pc = "entry"
  /\ pc' = "parse"
  /\ body' \in Bodies
  /\ UNCHANGED << scope, srcLeft, merged, scopedFacts, aiCalls, inSection,
                  cur, valid, nKept, paragraphs, response, hIn, hOut >>

\* BodySchema.parse(...) and the list of sources; a source that is blank is
\* dropped from the list; a body that fails throws to the catch of POST
ParseBody ==
  /\ pc = "parse"
  /\ IF BodyIsValid(body.tone, body.length, body.nsources)
     THEN /\ pc' = "fetch"
          /\ scope' = body.scope
          /\ srcLeft' = body.nsources - body.blank
          /\ UNCHANGED response
     ELSE /\ pc' = "done"
          /\ response' = ErrorResponse
          /\ UNCHANGED << scope, srcLeft >>
  /\ body' = NoBody
  /\ UNCHANGED << merged, scopedFacts, aiCalls, inSection,
                  cur, valid, nKept, paragraphs, hIn, hOut >>

\* One round of the loop over sources: the source is no URL, or its
\* retrieval fails (timeout, status, transport) and the catch swallows it, or
\* the page's facts are merged
FetchSource ==
  /\ pc = "fetch"
  /\ srcLeft > 0
  /\ srcLeft' = srcLeft - 1
  /\ \/ UNCHANGED merged
     \/ \E facts \in ExtractedFacts : merged' = mergeFacts(merged, facts)
  /\ UNCHANGED << body, pc, scope, scopedFacts, aiCalls, inSection,
                  cur, valid, nKept, paragraphs, response, hIn, hOut >>

\* the name taken only when it is longer than the one there is
ManualMergeByLength(m, name, extra) ==
  Spread(IF Trim(name) # <<>> THEN mergeFacts(m, <<<<KEY_NAME, Trim(name)>>>>) ELSE m,
         parseManualFacts(extra))

\* if (propertyName?.trim()) merged["物件名"] = propertyName.trim();
\* merged = { ...merged, ...parseManualFacts(extraText) };
ManualMerge(m, name, extra) ==
  Spread(IF Trim(name) # <<>> THEN Put(m, KEY_NAME, Trim(name)) ELSE m,
         parseManualFacts(extra))

ApplyManual ==
  /\ pc = "fetch"
  /\ srcLeft = 0
  /\ \E name \in PropertyNames, extra \in ExtraTexts :
       merged' = ManualMerge(merged, name, extra)
  /\ pc' = "gate"
  /\ UNCHANGED << body, scope, srcLeft, scopedFacts, aiCalls, inSection, cur, valid, nKept,
                  paragraphs, response, hIn, hOut >>

HasMoreThanEnoughFacts(facts) == countFacts(facts) > MIN_FACTS_FOR_GENERATION

\* the evidence gate
HasEnoughFacts(facts) == ~(countFacts(facts) < MIN_FACTS_FOR_GENERATION)

EvidenceGate ==
  /\ pc = "gate"
  /\ LET scoped == stripUnitOnlyFactsForBuildingScope(merged, scope)
     IN /\ scopedFacts' = scoped
        /\ IF HasEnoughFacts(scoped)
           THEN /\ pc' = "generate"
                /\ UNCHANGED response
           ELSE /\ pc' = "done"
                /\ response' = OkResponse(factOnlyOutput(scoped, scope), scoped)
  /\ UNCHANGED << body, scope, srcLeft, merged, aiCalls, inSection,
                  cur, valid, nKept, paragraphs, hIn, hOut >>

\* await client.responses.create(...)
CallTextService ==
  /\ pc = "generate"
  /\ pc' = "awaiting"
  /\ aiCalls' = aiCalls + 1
  /\ UNCHANGED << body, scope, srcLeft, merged, scopedFacts,
                  inSection, cur, valid, nKept, paragraphs, response, hIn, hOut >>

TextServiceFailsAndCallsAgain ==
  /\ pc = "awaiting"
  /\ aiCalls < 3
  /\ aiCalls' = aiCalls + 1
  /\ UNCHANGED << body, pc, scope, srcLeft, merged, scopedFacts, inSection, cur, valid,
                  nKept, paragraphs, response, hIn, hOut >>

TextServiceFailsAndRetries ==
  /\ pc = "awaiting"
  /\ pc' = "generate"
  /\ UNCHANGED << body, scope, srcLeft, merged, scopedFacts, aiCalls, inSection, cur, valid,
                  nKept, paragraphs, response, hIn, hOut >>

\* the call throws: the catch of POST answers
TextServiceFails ==
  /\ pc = "awaiting"
  /\ pc' = "done"
  /\ response' = ErrorResponse
  /\ UNCHANGED << body, scope, srcLeft, merged, scopedFacts, aiCalls,
                  inSection, cur, valid, nKept, paragraphs, hIn, hOut >>

\* the output holds no {...}, or JSON.parse throws
TextServiceReturnsNoJson ==
  /\ pc = "awaiting"
  /\ pc' = "done"
  /\ response' = Disclosure
  /\ UNCHANGED << body, scope, srcLeft, merged, scopedFacts, aiCalls,
                  inSection, cur, valid, nKept, paragraphs, hIn, hOut >>

\* the output parses to a payload
TextServiceReturnsPayload ==
  /\ pc = "awaiting"
  /\ pc' = "validate"
  /\ UNCHANGED << body, scope, srcLeft, merged, scopedFacts, aiCalls,
                  inSection, cur, valid, nKept, paragraphs, response, hIn, hOut >>

\* the keys of the entries of scopedFacts whose value is a non-blank string
allowedKeys ==
  { scopedFacts[i][1] : i \in { j \in DOMAIN scopedFacts : IsCounted(scopedFacts[j]) } }

\* factValues[k]
factValues(k) == Get(scopedFacts, k)

KeysArray(s) == IF s.isArray THEN s.keys ELSE <<>>

KeysSomeAllowed(keys) == keys # <<>> /\ \E i \in DOMAIN keys : keys[i] \in allowedKeys

\* keys.length && keys.every(k => allowed.has(k))
KeysAllowed(keys) == keys # <<>> /\ \A i \in DOMAIN keys : keys[i] \in allowedKeys

ContainsSomeUnchecked(keys, txt) == \E i \in DOMAIN keys : factValues(keys[i]) # <<>>

\* keys.some(k => { const val = factValues[k]; return val && txt.includes(val); })
ContainsSome(keys, txt) ==
  \E i \in DOMAIN keys : factValues(keys[i]) # <<>> /\ Includes(txt, factValues(keys[i]))

\* the three tests of the loop body
Accepts(s) ==
  LET txt == Trim(s.text)
      keys == KeysArray(s)
  IN /\ KeysAllowed(keys)
     /\ ContainsSome(keys, txt)
     /\ NoBannedPhrase(txt)

\* for (const sec of payload.sections): a section whose sentences are no
\* array is skipped, another one starts with an empty valid
BeginSection ==
  /\ pc = "validate"
  /\ ~inSection
  /\ \/ inSection' = TRUE
     \/ UNCHANGED inSection
  /\ UNCHANGED << body, pc, scope, srcLeft, merged, scopedFacts,
                  aiCalls, cur, valid, nKept, paragraphs, response, hIn, hOut >>

\* for (const s of sec.sentences)
ReadSentence ==
  /\ pc = "validate"
  /\ inSection
  /\ cur = NoSentence
  /\ nKept < MaxKept
  /\ \E s \in Sentences : cur' = s
  /\ UNCHANGED << body, pc, scope, srcLeft, merged, scopedFacts,
                  aiCalls, inSection, valid, nKept, paragraphs, response,
                  hIn, hOut >>

\* the body of the loop: continue, or valid.push(txt)
JudgeSentence ==
  /\ pc = "validate"
  /\ cur # NoSentence
  /\ valid' = IF Accepts(cur) THEN Append(valid, Trim(cur.text)) ELSE valid
  /\ nKept' = IF Accepts(cur) THEN nKept + 1 ELSE nKept
  /\ cur' = NoSentence
  /\ UNCHANGED << body, pc, scope, srcLeft, merged, scopedFacts,
                  aiCalls, inSection, paragraphs, response, hIn, hOut >>

\* if (valid.length) paragraphs.push(valid.join(""))
EndSection ==
  /\ pc = "validate"
  /\ inSection
  /\ cur = NoSentence
  /\ inSection' = FALSE
  /\ paragraphs' = IF valid # <<>> THEN Append(paragraphs, Join(valid, <<>>)) ELSE paragraphs
  /\ valid' = <<>>
  /\ UNCHANGED << body, pc, scope, srcLeft, merged, scopedFacts,
                  aiCalls, cur, nKept, response, hIn, hOut >>

\* lines 304-308
PostProcess(paras, facts, keys, sc) ==
  LET joined == Join(paras, <<NL, NL>>)
      noWeasel == dropBannedPhrases(joined)
      scopeClean == stripUnitOnlySentences(noWeasel, sc)
      cleaned == sanitizeForbidden(scopeClean)
  IN enforceMustInclude(cleaned, facts, keys, sc)

RespondWithoutFallback ==
  /\ pc = "validate"
  /\ ~inSection
  /\ pc' = "done"
  /\ \E keys \in MustIncludeChoices :
       response' = OkResponse(PostProcess(paragraphs, scopedFacts, keys, scope), scopedFacts)
  /\ UNCHANGED << body, scope, srcLeft, merged, scopedFacts, aiCalls,
                  inSection, cur, valid, nKept, paragraphs, hIn, hOut >>

\* the end of the payload (or sections that are no array): the fallback, or
\* the post-processed text
Respond ==
  /\ pc = "validate"
  /\ ~inSection
  /\ pc' = "done"
  /\ \E keys \in MustIncludeChoices :
       response' = IF paragraphs = <<>> THEN Disclosure
                      ELSE OkResponse(PostProcess(paragraphs, scopedFacts, keys, scope),
                                      scopedFacts)
  /\ UNCHANGED << body, scope, srcLeft, merged, scopedFacts, aiCalls,
                  inSection, cur, valid, nKept, paragraphs, hIn, hOut >>

Next ==
  \/ ReceiveBody
  \/ ParseBody
  \/ FetchSource
  \/ ApplyManual
  \/ EvidenceGate
  \/ CallTextService
  \/ TextServiceFails
  \/ TextServiceReturnsNoJson
  \/ TextServiceReturnsPayload
  \/ BeginSection
  \/ ReadSentence
  \/ JudgeSentence
  \/ EndSection
  \/ Respond

Spec == Init /\ [][Next]_vars

----------------------------------------------------------------------------
(* The functions applied on their own: no request runs, hIn holds the      *)
(* arguments and hOut the result                                           *)

NoRequest ==
  /\ pc = "idle"
  /\ body = NoBody
  /\ scope = "unit"
  /\ srcLeft = 0
  /\ merged = EmptyFacts
  /\ scopedFacts = EmptyFacts
  /\ aiCalls = 0
  /\ inSection = FALSE
  /\ cur = NoSentence
  /\ valid = <<>>
  /\ nKept = 0
  /\ paragraphs = <<>>
  /\ response = NoResponse

\* the fact sets over the keys ks (in this order) with values of vs; a key
\* may be absent
RECURSIVE FactSetsOver(_, _)
FactSetsOver(ks, vs) ==
  IF ks = <<>> THEN { EmptyFacts }
  ELSE LET rest == FactSetsOver(Tail(ks), vs)
       IN rest \cup { <<<<Head(ks), v>>>> \o f : v \in vs, f \in rest }

\* mergeFacts: values that differ in length only by the blanks around them,
\* a blank value, the empty string; the keys in both orders
MergeValues ==
  { <<>>, <<"a">>, <<"a", "b">>, <<"c", SP, SP>>, <<SP, "d">>, <<SP, SP>> }

MergeFactSets ==
  FactSetsOver(<<KEY_NAME, KEY_LOC>>, MergeValues)
    \cup FactSetsOver(<<KEY_LOC, KEY_NAME>>, MergeValues)

InitMerge ==
  /\ NoRequest
  /\ hIn \in [base : MergeFactSets, add : MergeFactSets]
  /\ hOut = NoValue

ApplyMerge ==
  /\ pc = "idle"
  /\ hOut = NoValue
  /\ hOut' = [facts |-> mergeFacts(hIn.base, hIn.add)]
  /\ UNCHANGED << requestVars, hIn >>

SpecMerge == InitMerge /\ [][ApplyMerge]_vars

\* lines 198-208, every source a page: merged starts empty and takes the
\* facts of one source after the other.  hIn holds the facts of at most
\* MaxFolded sources, hOut the accumulator and the number of sources merged
MaxFolded == 3

FoldValues == { <<"a">>, <<"b">>, <<"a", "b">> }

FoldFactSets == FactSetsOver(<<KEY_NAME, KEY_LOC>>, FoldValues)

InitFold ==
  /\ NoRequest
  /\ hIn \in UNION { [1..n -> FoldFactSets] : n \in 0..MaxFolded }
  /\ hOut = [facts |-> EmptyFacts, n |-> 0]

\* merged = mergeFacts(merged, facts)
MergeNextSource ==
  /\ pc = "idle"
  /\ hOut.n < Len(hIn)
  /\ hOut' = [facts |-> mergeFacts(hOut.facts, hIn[hOut.n + 1]), n |-> hOut.n + 1]
  /\ UNCHANGED << requestVars, hIn >>

SpecFold == InitFold /\ [][MergeNextSource]_vars

\* stripUnitOnlyFactsForBuildingScope: general and unit-only keys, each
\* absent or with a value
StripValues == { <<"a">>, <<SP>> }

StripFactSets ==
  FactSetsOver(<<KEY_LOC, KEY_LAYOUT, KEY_YEAR, KEY_FLOOR, <<"balcony">> >>, StripValues)

InitStrip ==
  /\ NoRequest
  /\ hIn \in [facts : StripFactSets, scope : Scopes]
  /\ hOut = NoValue

ApplyStrip ==
  /\ pc = "idle"
  /\ hOut = NoValue
  /\ hOut' = [once |-> stripUnitOnlyFactsForBuildingScope(hIn.facts, hIn.scope)]
  /\ UNCHANGED << requestVars, hIn >>

ApplyStripAgain ==
  /\ pc = "idle"
  /\ hOut # NoValue
  /\ DOMAIN hOut = {"once"}
  /\ hOut' = [once |-> hOut.once,
              twice |-> stripUnitOnlyFactsForBuildingScope(hOut.once, hIn.scope)]
  /\ UNCHANGED << requestVars, hIn >>

NextStrip == ApplyStrip \/ ApplyStripAgain

SpecStrip == InitStrip /\ [][NextStrip]_vars

\* sanitizeForbidden: the texts of at most MaxTextLen characters over the
\* characters of the banned terms, the blank and the mark of the wrapper
MaxTextLen == 4

SanitizeAlphabet == { "sai", "kou", "kyu", "kaku", "yasu", "ha", "rimawari", SP, "*" }

TextsUpTo(n) == UNION { [1..m -> SanitizeAlphabet] : m \in 0..n }

InitSanitize ==
  /\ NoRequest
  /\ hIn \in TextsUpTo(MaxTextLen)
  /\ hOut = NoValue

ApplySanitize ==
  /\ pc = "idle"
  /\ hOut = NoValue
  /\ hOut' = [text |-> sanitizeForbidden(hIn)]
  /\ UNCHANGED << requestVars, hIn >>

SpecSanitize == InitSanitize /\ [][ApplySanitize]_vars

\* lines 209-212: the merged facts of the pages, the explicit name (also
\* padded with blanks) and the extra-facts block, then the scope filter
ManualNames == PropertyNames \cup { <<SP, "P", SP>> }

InitManual ==
  /\ NoRequest
  /\ hIn \in [merged : ExtractedFacts, name : ManualNames, extra : ExtraTexts, scope : Scopes]
  /\ hOut = NoValue

ApplyManualAndScope ==
  /\ pc = "idle"
  /\ hOut = NoValue
  /\ hOut' = [facts |-> stripUnitOnlyFactsForBuildingScope(
                           ManualMerge(hIn.merged, hIn.name, hIn.extra), hIn.scope)]
  /\ UNCHANGED << requestVars, hIn >>

SpecManual == InitManual /\ [][ApplyManualAndScope]_vars

\* The earlier POST that retrieves its urls concurrently:
\*   htmlList = await Promise.all(urls.map(u => fetchWithTimeout(u).catch(() => "")))
\* where fetchWithTimeout returns res.text() whatever the status is.  hIn is
\* what each url will do, hOut.pending the retrievals not yet settled
MaxUrls == 2

\* "ok" a page, "status" a non-success status with a body, "timeout" the
\* abort after FETCH_TIMEOUT_MS, "transport" a rejected fetch; html is the
\* body, given by the facts that extractFactsFromHtml finds in it
UrlOutcomes ==
  [kind : {"ok", "status"}, html : { <<>>, <<<<KEY_LOC, <<"T">>>>>> }]
    \cup [kind : {"timeout", "transport"}, html : { <<>> }]

UrlLists == UNION { [1..n -> UrlOutcomes] : n \in 0..MaxUrls }

NoHtml == <<"pending">>

InitConcurrent ==
  /\ NoRequest
  /\ hIn \in UrlLists
  /\ hOut = NoValue

StartRetrievals ==
  /\ pc = "idle"
  /\ hOut = NoValue
  /\ hOut' = [pending |-> DOMAIN hIn, htmlList |-> [i \in DOMAIN hIn |-> NoHtml],
              extracted |-> <<>>, done |-> FALSE]
  /\ UNCHANGED << requestVars, hIn >>

\* fetchWithTimeout(u).catch(() => ""): a rejection gives the empty string,
\* a response gives its body
fetchWithTimeoutOrEmpty(outcome) ==
  IF outcome.kind \in {"timeout", "transport"} THEN <<>> ELSE outcome.html

SettleRetrieval ==
  /\ pc = "idle"
  /\ hOut # NoValue
  /\ \E i \in hOut.pending :
       hOut' = [hOut EXCEPT !.pending = @ \ {i},
                            !.htmlList[i] = fetchWithTimeoutOrEmpty(hIn[i])]
  /\ UNCHANGED << requestVars, hIn >>

\* for (const html of htmlList) { if (!html) continue; extracted.push(...) }
ExtractAll ==
  /\ pc = "idle"
  /\ hOut # NoValue
  /\ hOut.pending = {}
  /\ ~hOut.done
  /\ hOut' = [hOut EXCEPT !.extracted = SelectSeq(hOut.htmlList, LAMBDA h : h # <<>>),
                          !.done = TRUE]
  /\ UNCHANGED << requestVars, hIn >>

NextConcurrent == StartRetrievals \/ SettleRetrieval \/ ExtractAll

SpecConcurrent == InitConcurrent /\ [][NextConcurrent]_vars

\* stripUnitOnlySentences: the texts of at most MaxTextLen characters made
\* of a letter, the unit-only keyword 階, 。, the line break and the blank
SentenceAlphabet == { "T", "floor", MARU, NL, SP }

InitSentences ==
  /\ NoRequest
  /\ hIn \in [text : UNION { [1..m -> SentenceAlphabet] : m \in 0..MaxTextLen },
               scope : Scopes]
  /\ hOut = NoValue

ApplyStripSentences ==
  /\ pc = "idle"
  /\ hOut = NoValue
  /\ hOut' = [text |-> stripUnitOnlySentences(hIn.text, hIn.scope)]
  /\ UNCHANGED << requestVars, hIn >>

SpecSentences == InitSentences /\ [][ApplyStripSentences]_vars

\* enforceMustInclude: texts that hold a value bare, in the form key：value,
\* in the form key:value, or not at all; facts with a value, with the empty
\* string, or absent; up to two required keys, one of them no fact key
MustTexts ==
  { <<>>, <<"T", MARU>>, <<"1", "9", "9", "1", MARU>>,
    <<"name", ZCOLON, "T", MARU>>, <<"layout", COLON, "T", NL>> }

MustFactSets ==
  FactSetsOver(<<KEY_NAME, KEY_YEAR, KEY_LAYOUT>>,
               { <<>>, <<"T">>, <<"1", "9", "9", "1">> })

MustKeyChoices == { KEY_NAME, KEY_YEAR, KEY_LAYOUT, <<"view">> }

MustKeyLists ==
  { <<>> } \cup { <<k>> : k \in MustKeyChoices }
           \cup { <<k, l>> : k \in MustKeyChoices, l \in MustKeyChoices }

InitMust ==
  /\ NoRequest
  /\ hIn \in [text : MustTexts, facts : MustFactSets, keys : MustKeyLists, scope : Scopes]
  /\ hOut = NoValue

ApplyMust ==
  /\ pc = "idle"
  /\ hOut = NoValue
  /\ hOut' = [text |-> enforceMustInclude(hIn.text, hIn.facts, hIn.keys, hIn.scope)]
  /\ UNCHANGED << requestVars, hIn >>

SpecMust == InitMust /\ [][ApplyMust]_vars

\* extractFirstJsonObject: the raw outputs prefix + J + suffix, J a JSON
\* object with one member at most, whose value is a string of at most
\* MaxStringItems characters or escapes, or such an object; the raw outputs
\* without an opening brace; the raw outputs that break off inside J
MaxStringItems == 2

StringItems == { <<"a">>, <<"{">>, <<"}">>, <<BACKSLASH, QUOTE>>, <<BACKSLASH, BACKSLASH>> }

RECURSIVE StringBodies(_)
StringBodies(n) ==
  IF n = 0 THEN { <<>> }
  ELSE LET shorter == StringBodies(n - 1)
       IN shorter \cup { b \o c : b \in shorter, c \in StringItems }

StringLiterals == { <<QUOTE>> \o b \o <<QUOTE>> : b \in StringBodies(MaxStringItems) }

MemberKeys == { <<QUOTE, "a", QUOTE>>, <<QUOTE, "}", QUOTE>> }

ObjectOf(k, v) == <<"{">> \o k \o <<":">> \o v \o <<"}">>

FlatObjects ==
  { <<"{", "}">> } \cup { ObjectOf(k, v) : k \in MemberKeys, v \in StringLiterals }

JsonObjects == FlatObjects \cup { ObjectOf(k, o) : k \in MemberKeys, o \in FlatObjects }

RawPrefixes == { <<>>, <<"a", QUOTE>> }

RawSuffixes == { <<>>, <<"}">>, <<"a", "{">>, <<QUOTE>> }

RawOutputs ==
  [kind : {"object"}, prefix : RawPrefixes, json : JsonObjects, suffix : RawSuffixes]
    \cup [kind : {"none"}, prefix : { <<>>, <<"a">>, <<"}", QUOTE>> }, json : { <<>> },
          suffix : { <<>> }]
    \cup UNION { [kind : {"open"}, prefix : RawPrefixes,
                   json : { SubSeq(j, 1, n) : n \in 1..(Len(j) - 1) }, suffix : { <<>> }] :
                  j \in FlatObjects }

InitJson ==
  /\ NoRequest
  /\ hIn \in RawOutputs
  /\ hOut = NoValue

\* const jsonStr = extractFirstJsonObject(raw)
ApplyExtractJson ==
  /\ pc = "idle"
  /\ hOut = NoValue
  /\ hOut' = extractFirstJsonObject(hIn.prefix \o hIn.json \o hIn.suffix)
  /\ UNCHANGED << requestVars, hIn >>

SpecJson == InitJson /\ [][ApplyExtractJson]_vars

\* extractFactsFromHtml: the pages with at most MaxItems JSON-LD objects,
\* at most MaxItems [itemprop] elements and at most MaxRows label elements
MaxItems == 1
MaxRows == 2

SeqsUpTo(S, n) == UNION { [1..m -> S] : m \in 0..n }

\* a name, a blank name with an address, an address without any part
LdObjects ==
  { [name |-> <<"J">>, address |-> <<>>, yearBuilt |-> <<>>],
    [name |-> <<SP>>, address |-> << <<>>, <<"A">>, <<>>, <<"1">> >>, yearBuilt |-> <<"1", "9">>],
    [name |-> <<>>, address |-> << <<>>, <<>>, <<>>, <<>> >>, yearBuilt |-> <<>>] }

\* a name, an address inside blanks, a blank name, a prop outside the map
ItemProps ==
  { <<"name", <<"M">> >>, <<"streetAddress", <<SP, "M", SP>> >>, <<"name", <<SP>> >>,
    <<"price", <<"M">> >> }

\* 所在地 twice with different values, 住所, 物件名 with white space in the
\* label and in the value, a label outside ALIASES
TableRows ==
  { << <<"loc">>, <<"T">> >>, << <<"loc">>, <<"U">> >>, << <<"addr">>, <<"V">> >>,
    << <<SP, "name">>, <<"W", SP, SP, "W">> >>, << <<"price">>, <<"T">> >> }

\* m[1] for 所在地 and for 築年: no match, a match, a match of white space
BodyMatches == { <<l, y>> : l \in { <<>>, <<"R">>, <<SP>> }, y \in { <<>>, <<"R", SP>> } }

Pages ==
  [ld : SeqsUpTo(LdObjects, MaxItems), items : SeqsUpTo(ItemProps, MaxItems),
   rows : SeqsUpTo(TableRows, MaxRows), matches : BodyMatches]

InitExtract ==
  /\ NoRequest
  /\ hIn \in Pages
  /\ hOut = NoValue

ApplyExtract ==
  /\ pc = "idle"
  /\ hOut = NoValue
  /\ hOut' = [facts |-> extractFactsFromHtml(hIn)]
  /\ UNCHANGED << requestVars, hIn >>

SpecExtract == InitExtract /\ [][ApplyExtract]_vars

----------------------------------------------------------------------------
(* Properties of POST *)

\* the keys of the scoped fact set whose value is not blank
PermittedKeys == { k \in KeysOf(scopedFacts) : Trim(Get(scopedFacts, k)) # <<>> }

\* the non-blank values of the merged facts that the scope leaves
KnownCount ==
  Cardinality({ k \in KeysOf(merged) :
                  /\ Trim(Get(merged, k)) # <<>>
                  /\ (scope = "building" => k \notin UNIT_ONLY_KEYS) })

\* the gate answered without calling the text service
GateStopped == pc = "done" /\ response.status = 200 /\ aiCalls = 0

\* the request went past the gate
GatePassed == pc \in {"generate", "awaiting", "validate"} \/ (pc = "done" /\ aiCalls > 0)

YEAR_1991 == <<"1", "9", "9", "1">>
TEXT_1991 == <<"1", "9", "9", "1", MARU>>
TEXT_1990 == <<"1", "9", "9", "0", MARU>>

\* C2: a sentence is pushed to valid only from the sentence under examination,
\* and only if its claimed keys are an array, not empty, and every one of them
\* is a key of the scoped fact set with a non-blank value; paragraphs grow
\* only by the joined valid sentences of a section
C2_AcceptedKeysArePermitted ==
  [][ /\ valid' # valid /\ valid' # <<>> =>
          /\ cur # NoSentence
          /\ cur.isArray
          /\ cur.keys # <<>>
          /\ \A i \in DOMAIN cur.keys : cur.keys[i] \in PermittedKeys
          /\ valid' = Append(valid, Trim(cur.text))
      /\ paragraphs' # paragraphs =>
          valid # <<>> /\ paragraphs' = Append(paragraphs, Join(valid, <<>>)) ]_vars

\* a sentence with permitted keys has been accepted
C2_Witness == pc = "validate" /\ nKept = 1 /\ Len(valid) = 1 /\ cur = NoSentence

\* C3: a sentence is pushed to valid only if the value stored in the scoped
\* fact set for one of its claimed keys occurs in its text; the sentence
\* "1990。" claiming the year-built key, whose value is "1991", is dropped
C3_AcceptedTextHoldsAClaimedValue ==
  [][ /\ valid' # valid /\ valid' # <<>> =>
          \E i \in DOMAIN cur.keys :
            /\ Has(scopedFacts, cur.keys[i])
            /\ Get(scopedFacts, cur.keys[i]) # <<>>
            /\ Includes(Trim(cur.text), Get(scopedFacts, cur.keys[i]))
      /\ ( /\ pc = "validate" /\ cur # NoSentence
           /\ cur.text = TEXT_1990 /\ cur.keys = <<KEY_YEAR>>
           /\ Get(scopedFacts, KEY_YEAR) = YEAR_1991 ) => valid' = valid ]_vars

\* the sentence "1991。" claiming the year-built key has been accepted
C3_Witness ==
  /\ pc = "validate" /\ valid = <<TEXT_1991>>
  /\ Get(scopedFacts, KEY_YEAR) = YEAR_1991

\* C4: the gate answers with the disclosure, without generating, exactly when
\* fewer than 3 non-blank values are left by the scope filter; with 3 the
\* request goes on to the text service
C4_GateIffBelowThreshold ==
  /\ GateStopped =>
       /\ KnownCount < 3
       /\ response = OkResponse(factOnlyOutput(scopedFacts, scope), scopedFacts)
  /\ GatePassed => KnownCount >= 3

\* three known facts at building scope, a unit-only fact beside them: the
\* text service is called
C4_Witness ==
  /\ pc = "awaiting" /\ scope = "building" /\ KnownCount = 3
  /\ Has(merged, KEY_LAYOUT)

\* C5: the text service is called at most once in a request, and never when
\* fewer than 3 non-blank values are left by the scope filter
C5_NoCallBelowThreshold ==
  /\ aiCalls <= 1
  /\ (pc \notin {"entry", "fetch", "gate"} /\ KnownCount < 3) => aiCalls = 0
  /\ pc \in {"entry", "fetch", "gate", "generate"} => aiCalls = 0

\* two known facts: the response is there and no call was made
C5_Witness == GateStopped /\ KnownCount = 2

\* C6: at building scope the scoped fact set, and the fact set of a
\* successful response, holds no unit-only key; at unit scope it is the
\* merged fact set unchanged
C6_NoUnitOnlyKeyAtBuildingScope ==
  /\ pc \in {"generate", "awaiting", "validate"} \/ (pc = "done" /\ response.status = 200) =>
       IF scope = "building"
       THEN /\ KeysOf(scopedFacts) \cap UNIT_ONLY_KEYS = {}
            /\ \A k \in KeysOf(merged) \ UNIT_ONLY_KEYS :
                 Has(scopedFacts, k) /\ Get(scopedFacts, k) = Get(merged, k)
       ELSE scopedFacts = merged
  /\ (pc = "done" /\ response.status = 200) => response.facts = scopedFacts

\* a successful response at building scope although the extra-facts block
\* gave the floor plan
C6_Witness ==
  /\ pc = "done" /\ response.status = 200 /\ scope = "building"
  /\ Get(merged, KEY_LAYOUT) = <<"2">>

\* the fixed disclosure text with one line for each entry of facts whose
\* value is not blank, and no other line
KnownFactsDisclosure(facts, sc) ==
  LET known == SelectSeq(facts, LAMBDA e : Trim(e[2]) # <<>>)
      lines == [i \in DOMAIN known |-> <<"-">> \o known[i][1] \o <<ZCOLON>> \o known[i][2]]
  IN <<"[stop]", NL, "[only]", NL, NL, "[facts]", NL>>
       \o (IF known # <<>> THEN Join(lines, <<NL>>) ELSE <<"[none]">>)
       \o <<NL, NL, "[request]", NL>>
       \o <<IF sc = "building" THEN "[advice-building]" ELSE "[advice-unit]">>

\* C12: when the gate stops the request, the response text is the fixed
\* disclosure text that lists exactly the known (non-blank) facts of the
\* scoped fact set; it is determined by the scoped facts and the scope, so
\* tone, length and must-include keys have no part in it
C12_DisclosureListsExactlyKnownFacts ==
  GateStopped => response.text = KnownFactsDisclosure(scopedFacts, scope)

\* C13: at building scope a sentence whose claimed keys are all unit-only
\* keys is never pushed to valid, so it reaches no paragraph; and when no
\* sentence of the payload was kept, the response is the disclosure
C13_UnitOnlyKeyedSentenceIsDropped ==
  [][ /\ ( /\ pc = "validate" /\ scope = "building" /\ cur # NoSentence
           /\ \A i \in DOMAIN cur.keys : cur.keys[i] \in UNIT_ONLY_KEYS ) =>
          valid' = valid /\ paragraphs' = paragraphs /\ nKept' = nKept
      /\ (pc = "validate" /\ pc' = "done" /\ nKept = 0) =>
          response' = OkResponse(factOnlyOutput(scopedFacts, scope), scopedFacts) ]_vars

\* at building scope the sentence 3階T。 claiming 間取り is under
\* examination; the page gave 間取り = 3, so at unit scope it would pass
C13_Witness ==
  /\ pc = "validate" /\ scope = "building" /\ nKept = 0
  /\ cur # NoSentence
  /\ cur.isArray /\ cur.keys = <<KEY_LAYOUT>> /\ cur.text = <<"3", "floor", "T", MARU>>
  /\ Get(merged, KEY_LAYOUT) = <<"3">>

\* C16: the text service is called once at most and a call is never
\* followed by another one; when the request ends after the call without
\* success, the response is the error descriptor with status 500, without
\* text and without facts, and no paragraph has been built
C16_FailedCallGivesErrorWithoutRetry ==
  [][ /\ aiCalls' # aiCalls => (aiCalls = 0 /\ aiCalls' = 1)
      /\ pc = "awaiting" => pc' \in {"awaiting", "done", "validate"}
      /\ (pc = "awaiting" /\ pc' = "done" /\ response'.status # 200) =>
           /\ response'.status = 500
           /\ DOMAIN response' = {"status", "error"}
           /\ paragraphs' = <<>> ]_vars

\* the call was made, it failed, and the error descriptor is the response
C16_Witness ==
  /\ pc = "done" /\ aiCalls = 1
  /\ response.status = 500 /\ DOMAIN response = {"status", "error"}

\* a body with a source, a tone of the three and a length of 300..1200
IsWellFormed(b) ==
  /\ b.nsources >= 1
  /\ b.tone \in {"elegant", "plain", "friendly"}
  /\ b.length >= 300 /\ b.length <= 1200

\* a success carries text and the scoped facts, an error carries neither
IsSuccess(r) ==
  r.status = 200 /\ DOMAIN r = {"status", "text", "facts"}
    /\ r.text # <<>> /\ r.facts = scopedFacts

IsError(r) == r.status = 500 /\ DOMAIN r = {"status", "error"}

\* C17: a request has a response exactly when it has ended; the response is
\* a success or an error, never a mixture; it is given once and nothing
\* follows it; a body that fails validation ends the request at once with
\* the error, no source retrieved and the text service not called
C17_OneResponseSuccessOrError ==
  /\ [](((pc = "done") <=> (response # NoResponse))
          /\ (response # NoResponse => (IsSuccess(response) \/ IsError(response))))
  /\ [][ /\ (response' # response) => (response = NoResponse /\ pc' = "done")
         /\ pc # "done"
         /\ (pc = "parse" /\ IsWellFormed(body)) => (pc' = "fetch")
         /\ (pc = "parse" /\ ~IsWellFormed(body)) =>
              ( /\ pc' = "done" /\ IsError(response')
                /\ srcLeft' = 0 /\ merged' = EmptyFacts /\ aiCalls' = 0 ) ]_vars

\* a request whose body failed validation has ended with the error
C17_Witness ==
  /\ pc = "done" /\ IsError(response)
  /\ srcLeft = 0 /\ merged = EmptyFacts /\ aiCalls = 0

\* C19: in a successful response every key of the returned fact set is not
\* empty and has a value that is not blank
C19_ReturnedFactsHaveNoBlankValue ==
  (pc = "done" /\ response.status = 200) =>
    \A i \in DOMAIN response.facts :
      response.facts[i][1] # <<>> /\ Trim(response.facts[i][2]) # <<>>

\* C20 as stated: at building scope the text of a generated response holds
\* no unit-only keyword, so no sentence of it does
C20_GeneratedTextHasNoUnitKeyword ==
  (pc = "done" /\ response.status = 200 /\ scope = "building" /\ paragraphs # <<>>) =>
    ~HasUnitKeyword(response.text)

\* the text before the must-include addendum
DescriptionPart(text) ==
  LET at == { i \in DOMAIN text : text[i] = "[addendum]" }
  IN IF at = {} THEN text
     ELSE SubSeq(text, 1, (CHOOSE i \in at : \A j \in at : i <= j) - 3)

\* C20 amended: at building scope the generated text before the addendum
\* holds no unit-only keyword, unless the sentences of the validated text
\* that hold none are all blank: then it is the first sentence of the
\* validated text, trimmed and sanitized
C20_NoUnitKeywordUnlessFallback ==
  [][ (pc = "validate" /\ pc' = "done" /\ scope = "building" /\ paragraphs # <<>>) =>
        LET validated == dropBannedPhrases(Join(paragraphs, <<NL, NL>>))
            sentences == SplitAfter(validated, {MARU, NL})
            description == DescriptionPart(response'.text)
        IN IF \A i \in DOMAIN sentences :
                HasUnitKeyword(sentences[i]) \/ Trim(sentences[i]) = <<>>
           THEN description = sanitizeForbidden(Trim(sentences[1]))
           ELSE ~HasUnitKeyword(description) /\ description # <<>> ]_vars

\* at building scope one validated paragraph held the keyword 階 and another
\* did not: the response text holds no keyword
C20_Witness ==
  /\ pc = "done" /\ response.status = 200 /\ scope = "building"
  /\ Len(paragraphs) = 2
  /\ \E i \in DOMAIN paragraphs : HasUnitKeyword(paragraphs[i])
  /\ ~HasUnitKeyword(response.text)

\* C21 as stated: a sentence whose text holds a banned phrase is not
\* accepted, and the text of a generated response holds no banned phrase
C21_ResponseTextHasNoBannedPhrase ==
  [][ /\ (valid' # valid /\ valid' # <<>>) => ~HasBannedPhrase(valid'[Len(valid')])
      /\ (pc = "validate" /\ pc' = "done" /\ paragraphs # <<>>) =>
            ~HasBannedPhrase(response'.text) ]_vars

\* C21 amended: a sentence whose text holds a banned phrase is not accepted,
\* and the generated text before the must-include addendum holds no banned
\* phrase, also when two accepted sentences form one where they are joined
C21_NoBannedPhraseBeforeAddendum ==
  [][ /\ (valid' # valid /\ valid' # <<>>) => ~HasBannedPhrase(valid'[Len(valid')])
      /\ (pc = "validate" /\ cur # NoSentence /\ HasBannedPhrase(Trim(cur.text))) =>
            valid' = valid
      /\ (pc = "validate" /\ pc' = "done" /\ paragraphs # <<>>) =>
            ~HasBannedPhrase(DescriptionPart(response'.text)) ]_vars

\* 言えますX。と was accepted twice in one section: the paragraph holds
\* と言えます, the response keeps the sentences around it
C21_Witness ==
  /\ pc = "done" /\ response.status = 200
  /\ Len(paragraphs) = 1 /\ HasBannedPhrase(paragraphs[1])
  /\ DescriptionPart(response.text) = <<"iemasu", "X", MARU, "to">>

\* C8: when the payload is through and no paragraph was kept, the response
\* is the disclosure of the scoped facts, with the scoped facts
C8_TotalFailureFallsBack ==
  [][ (pc = "validate" /\ pc' = "done" /\ paragraphs = <<>>) =>
        /\ response' = OkResponse(factOnlyOutput(scopedFacts, scope), scopedFacts)
        /\ response'.text # <<>> ]_vars

\* the text service was called, nothing was kept, the disclosure is returned
C8_Witness ==
  /\ pc = "done" /\ aiCalls = 1 /\ paragraphs = <<>> /\ response.status = 200
  /\ countFacts(scopedFacts) >= 3

----------------------------------------------------------------------------
(* Properties of the functions applied on their own *)

Longest(a, b) == IF Len(a) >= Len(b) THEN Len(a) ELSE Len(b)

\* r is whichever of a and b is longer after trimming
IsLongerAfterTrim(r, a, b) ==
  /\ r \in {a, b, Trim(a), Trim(b)}
  /\ Len(Trim(r)) = Longest(Trim(a), Trim(b))

\* C1: every key of mergeFacts(F1, F2) is a key of F1 or of F2; its value is
\* the only one there is when one input has the key, and whichever of F1[k]
\* and F2[k] is longer after trimming when both have it
C1_MergeKeepsLongerTrimmedValue ==
  hOut # NoValue =>
    /\ KeysOf(hOut.facts) \subseteq KeysOf(hIn.base) \cup KeysOf(hIn.add)
    /\ \A k \in KeysOf(hOut.facts) :
         IF Has(hIn.base, k) /\ Has(hIn.add, k)
         THEN IsLongerAfterTrim(Get(hOut.facts, k), Get(hIn.base, k), Get(hIn.add, k))
         ELSE IF Has(hIn.base, k) THEN Get(hOut.facts, k) = Get(hIn.base, k)
         ELSE Get(hOut.facts, k) = Get(hIn.add, k)

\* the fold of mergeFacts over the fact sets of sources, from acc on
RECURSIVE FoldFrom(_, _)
FoldFrom(acc, sources) ==
  IF sources = <<>> THEN acc ELSE FoldFrom(mergeFacts(acc, sources[1]), Tail(sources))

OrdersOf(n) == { p \in [1..n -> 1..n] : \A i, j \in 1..n : p[i] = p[j] => i = j }

\* the same value for every key (an absent key reads as the empty string)
SameValues(f, g) == \A k \in KeysOf(f) \cup KeysOf(g) : Get(f, k) = Get(g, k)

\* C26: the merged fact set does not depend on the order of the sources:
\* the fold over any permutation of them gives the same values, and
\* mergeFacts(A, B) gives the same values as mergeFacts(B, A)
C26_MergeIsOrderInsensitive ==
  hOut.n = Len(hIn) =>
    /\ \A p \in OrdersOf(Len(hIn)) :
         SameValues(hOut.facts, FoldFrom(EmptyFacts, [i \in 1..Len(hIn) |-> hIn[p[i]]]))
    /\ Len(hIn) = 2 => SameValues(mergeFacts(hIn[1], hIn[2]), mergeFacts(hIn[2], hIn[1]))

\* C28: every value of the accumulator is the value that one of the sources
\* merged so far holds for that key; a key that holds a value keeps a value
\* in every later step, and the length of its value does not decrease
C28_AccumulatorOnlyGrows ==
  /\ [](\A k \in KeysOf(hOut.facts) :
          \E i \in 1..hOut.n : Has(hIn[i], k) /\ Get(hIn[i], k) = Get(hOut.facts, k))
  /\ [][\A k \in KeysOf(hOut.facts) :
          Get(hOut.facts, k) # <<>> =>
            /\ Has(hOut'.facts, k)
            /\ Len(Get(hOut'.facts, k)) >= Len(Get(hOut.facts, k))]_vars

\* three sources were merged: the second one replaced the name of the first
\* by a longer one, the shorter name of the third one was not taken
C28_Witness ==
  /\ hOut.n = 3
  /\ Get(hIn[1], KEY_NAME) = <<"a">>
  /\ Get(hIn[2], KEY_NAME) = <<"a", "b">>
  /\ Get(hIn[3], KEY_NAME) = <<"b">>
  /\ Get(hOut.facts, KEY_NAME) = <<"a", "b">>

\* C7: at building scope, filtering the filtered fact set again gives the
\* filtered fact set
C7_StripIsIdempotent ==
  (hOut # NoValue /\ DOMAIN hOut = {"once", "twice"} /\ hIn.scope = "building") =>
    hOut.twice = hOut.once

\* a fact set with two unit-only keys and a general key has been filtered
\* twice at building scope
C7_Witness ==
  /\ hOut # NoValue /\ DOMAIN hOut = {"once", "twice"} /\ hIn.scope = "building"
  /\ {KEY_LAYOUT, KEY_FLOOR, KEY_LOC} \subseteq KeysOf(hIn.facts)
  /\ KeysOf(hOut.once) # KeysOf(hIn.facts)

C27_ManualFactIsMergedByLength ==
  hOut # NoValue =>
    \A k \in (KeysOf(hIn.merged) \cap KeysOf(parseManualFacts(hIn.extra))) \ {KEY_NAME} :
      Has(hOut.facts, k) =>
        IsLongerAfterTrim(Get(hOut.facts, k), Get(hIn.merged, k),
                          Get(parseManualFacts(hIn.extra), k))

\* C15, for the concurrent retrieval: when all retrievals are settled and
\* the pages extracted, the request goes on, and the extracted fact sets are
\* those of the pages that were retrieved with success, in order: a timeout,
\* a non-success status or a transport error contributes nothing
C15_FailedRetrievalContributesNoFacts ==
  (hOut # NoValue /\ hOut.done) =>
    hOut.extracted =
      SelectSeq([i \in DOMAIN hIn |-> IF hIn[i].kind = "ok" THEN hIn[i].html ELSE <<>>],
                LAMBDA h : h # <<>>)

\* the first sentence of a non-empty text: up to the first 。 or line break,
\* or the whole text when it has none
FirstSentence(text) ==
  LET ends == { i \in DOMAIN text : text[i] \in {MARU, NL} }
  IN IF ends = {} THEN text
     ELSE SubSeq(text, 1, CHOOSE i \in ends : \A j \in ends : i <= j)

\* C18: at building scope, for a non-empty text: when every sentence holds a
\* unit-only keyword the result is the first sentence, trimmed; and the
\* result is not empty when the first sentence is not blank
C18_FallsBackToFirstSentence ==
  (hOut # NoValue /\ hIn.scope = "building" /\ hIn.text # <<>>) =>
    LET sentences == SplitAfter(hIn.text, {MARU, NL})
    IN /\ (\A i \in DOMAIN sentences : HasUnitKeyword(sentences[i])) =>
            hOut.text = Trim(FirstSentence(hIn.text))
       /\ Trim(FirstSentence(hIn.text)) # <<>> => hOut.text # <<>>

\* the text 階T。階 has two sentences, both with the keyword 階: the result is
\* the first one
C18_Witness ==
  /\ hOut # NoValue /\ hIn.scope = "building"
  /\ hIn.text = <<"floor", "T", MARU, "floor">>
  /\ hOut.text = <<"floor", "T", MARU>>

\* the required key k has a known value that the text does not hold in any
\* of the three forms
IsOwed(text, facts, k) ==
  /\ Has(facts, k)
  /\ Get(facts, k) # <<>>
  /\ ~Includes(text, Get(facts, k))
  /\ ~Includes(text, k \o <<ZCOLON>> \o Get(facts, k))
  /\ ~Includes(text, k \o <<COLON>> \o Get(facts, k))

\* C11: for every required key that is applicable at the scope (none of the
\* eight unit-only keys at building scope) and whose known value the input
\* text does not hold, the returned text is the input text followed by an
\* addendum with a line naming the key and the value
C11_MissingRequiredFactIsAppended ==
  hOut # NoValue =>
    \A i \in DOMAIN hIn.keys :
      ( /\ hIn.scope = "building" => hIn.keys[i] \notin MustIncludeUnitOnly
        /\ IsOwed(hIn.text, hIn.facts, hIn.keys[i]) ) =>
        /\ StartsWith(hOut.text, hIn.text \o <<NL, NL, "[addendum]", NL>>)
        /\ Includes(SubSeq(hOut.text, Len(hIn.text) + 1, Len(hOut.text)),
                    <<"-">> \o hIn.keys[i] \o <<ZCOLON>> \o Get(hIn.facts, hIn.keys[i]))

\* two required keys with known values, neither in the text: both are in
\* the addendum
C11_Witness ==
  /\ hOut # NoValue
  /\ hIn.keys = <<KEY_YEAR, KEY_NAME>>
  /\ hIn.text = <<"T", MARU>>
  /\ Get(hIn.facts, KEY_YEAR) = <<"1", "9", "9", "1">>
  /\ Get(hIn.facts, KEY_NAME) = <<"1", "9", "9", "1">>
  /\ Len(hOut.text) > Len(hIn.text)

\* the wrapper around an occurrence of w at position i of text
IsWrappedAt(text, w, i) ==
  /\ i > 1
  /\ text[i - 1] = "*"
  /\ SubSeq(text, i + Len(w), i + Len(w) + 2) = <<"(", "adj", ")">>

\* some banned term occurs in text outside its wrapper
HasBareBannedWord(text) ==
  \E n \in DOMAIN BANNED_WORDS :
    \E i \in 1..(Len(text) - Len(BANNED_WORDS[n]) + 1) :
      /\ SubSeq(text, i, i + Len(BANNED_WORDS[n]) - 1) = BANNED_WORDS[n]
      /\ ~IsWrappedAt(text, BANNED_WORDS[n], i)

\* C9: the output of sanitizeForbidden holds no banned term outside the
\* wrapper
C9_SanitizedHasNoBareBannedWord ==
  hOut # NoValue => ~HasBareBannedWord(hOut.text)

\* 最高級 and 破格安 have been sanitized: the earlier term of the list is
\* wrapped, the other one does not occur any more
C9_Witness ==
  /\ hOut # NoValue
  /\ \/ hIn = <<"sai", "kou", "kyu">> /\ hOut.text = Wrapped(<<"sai", "kou">>) \o <<"kyu">>
     \/ hIn = <<"ha", "kaku", "yasu">> /\ hOut.text = <<"ha">> \o Wrapped(<<"kaku", "yasu">>)

\* the banned term whose wrapper starts s, if there is one
WrappedTermsAt(s) ==
  { n \in DOMAIN BANNED_WORDS : StartsWith(s, Wrapped(BANNED_WORDS[n])) }

\* every wrapper of text replaced by the term it wraps, left to right
RECURSIVE Unwrap(_)
Unwrap(text) ==
  IF text = <<>> THEN <<>>
  ELSE IF WrappedTermsAt(text) # {}
       THEN LET w == BANNED_WORDS[CHOOSE n \in WrappedTermsAt(text) : TRUE]
            IN w \o Unwrap(SubSeq(text, Len(Wrapped(w)) + 1, Len(text)))
       ELSE <<Head(text)>> \o Unwrap(Tail(text))

\* the number of places of text where w starts
Occurrences(text, w) ==
  Cardinality({ i \in 1..(Len(text) - Len(w) + 1) : SubSeq(text, i, i + Len(w) - 1) = w })

\* removing the wrappers from the output gives the trimmed input
UnwrappedIsTrimmedInput ==
  hOut # NoValue => Unwrap(hOut.text) = Trim(hIn)

\* C22: sanitizeForbidden substitutes and never deletes: every occurrence of
\* every banned term w of the input stands in the output as ※w（表現調整）,
\* and removing the wrappers from the output gives the trimmed input
C22_EveryTermIsWrappedInPlace ==
  hOut # NoValue =>
    /\ \A n \in DOMAIN BANNED_WORDS :
         Occurrences(hOut.text, Wrapped(BANNED_WORDS[n])) = Occurrences(hIn, BANNED_WORDS[n])
    /\ Unwrap(hOut.text) = Trim(hIn)

\* C23: for a raw output prefix + J + suffix, J a valid JSON object and no
\* brace in the prefix, extractFirstJsonObject returns exactly J; without an
\* opening brace, or without a balanced closing brace, it returns null
C23_FirstJsonObjectIsReturned ==
  hOut # NoValue =>
    /\ hIn.kind = "object" => hOut = [isNull |-> FALSE, text |-> hIn.json]
    /\ hIn.kind \in {"none", "open"} => hOut.isNull

\* what each strategy finds for key k on the page when it runs on its own
FoundBy(page, k) ==
  << Get(FromJsonLd(EmptyFacts, page.ld), k),
     Get(FromMicrodata(EmptyFacts, page.items), k),
     Get(FromTable(EmptyFacts, page.rows), k),
     Get(FromRegex(EmptyFacts, page.matches, 1), k) >>

\* the first value of found that is not empty; <<>> if there is none
FirstFound(found) ==
  LET at == { i \in DOMAIN found : found[i] # <<>> }
  IN IF at = {} THEN <<>> ELSE found[CHOOSE i \in at : \A j \in at : i <= j]

\* C24: the strategies run in the order JSON-LD, Microdata, table, pattern,
\* and the value of every key is the one of the first strategy in this
\* order that finds a value for it
C24_EarlierStrategyWins ==
  hOut # NoValue =>
    \A k \in {KEY_NAME, KEY_LOC, KEY_YEAR} :
      Get(hOut.facts, k) = FirstFound(FoundBy(hIn, k))

\* all four strategies find a location, and the one of JSON-LD is kept
C24_Witness ==
  /\ hOut # NoValue
  /\ FoundBy(hIn, KEY_LOC) = << <<"A", "1">>, <<"M">>, <<"T">>, <<"R">> >>
  /\ Get(hOut.facts, KEY_LOC) = <<"A", "1">>

\* the row is a label/value pair that the table strategy accepts for key k
IsAcceptedFor(row, k) ==
  LET label == RemoveSpaces(row[1])
  IN /\ label # <<>> /\ Len(label) <= 20
     /\ StdKey(label) = k
     /\ Trim(row[2]) # <<>>

\* C25: when JSON-LD and Microdata leave a key empty, the table strategy
\* gives it the value of the first accepted label/value pair for that key in
\* document order; a later pair for the key, also one with the same label,
\* is ignored
C25_FirstTableRowWins ==
  hOut # NoValue =>
    \A k \in {KEY_NAME, KEY_LOC, KEY_YEAR} :
      LET accepted == SelectSeq(hIn.rows, LAMBDA row : IsAcceptedFor(row, k))
      IN (FoundBy(hIn, k)[1] = <<>> /\ FoundBy(hIn, k)[2] = <<>> /\ accepted # <<>>) =>
           Get(hOut.facts, k) = CollapseSpaces(Trim(accepted[1][2]))

\* C10: the text of a successful response holds no banned term outside the
\* wrapper
C10_ResponseHasNoBareBannedWord ==
  (pc = "done" /\ response.status = 200) => ~HasBareBannedWord(response.text)

============================================================================
